---------------------------- MODULE Spec2Model ----------------------------
(***************************************************************************)
(* Model of cruzlorite/mandelbrot: two programs that render the Mandelbrot *)
(* set on the GPU and write mandelbrot.png.                                *)
(*                                                                         *)
(*   "GL"  src/ComputeShader/mandelbrot.cpp  (OpenGL compute shader)       *)
(*   "CL"  src/OpenCL/mandelbrot.cpp         (OpenCL kernel)               *)
(*                                                                         *)
(* Two specifications share the kernel operators:                          *)
(*   Spec   the host program main(): palette decode, device setup, kernel  *)
(*          build, dispatch, the work items of the dispatch running in any *)
(*          order, readback, encode;                                       *)
(*   KSpec  the two kernels as pure functions, applied to arguments drawn  *)
(*          from bounded sets.                                             *)
(*                                                                         *)
(* Single-precision values are modelled on a binary grid of FracBits       *)
(* fractional bits: a value v stands for v / One.  Every multiplication    *)
(* and division rounds to the grid (nearest, ties to even), as every float *)
(* operation rounds to 24 bits.  NaN is the result of 0/0; every           *)
(* comparison with NaN is false.                                           *)
(***************************************************************************)
EXTENDS Integers, Sequences, FiniteSets, TLC

\* ------------------------------------------------------------------------
\* Bounds of the model
\* ------------------------------------------------------------------------
FracBits == 4       \* fractional bits of the value grid
MaxWidth == 3       \* host: width  ranges over 1..MaxWidth
MaxHeight == 3      \* host: height ranges over 1..MaxHeight
MaxDepth == 4       \* kernels: maxDepth ranges over 1..MaxDepth
MaxPalette == 3     \* kernels: the palette has 1..MaxPalette entries
HostMaxDepth == 2   \* host: maxDepth ranges over 0..HostMaxDepth
HostMaxPalette == 2 \* host: the decoded palette has 0..HostMaxPalette entries
\* The work-group edge.  The source uses 32 (localGroupSize in main, and
\* local_size_x = local_size_y = 32 in the shader); the model scales it
\* down so that images that are and are not a multiple of it stay small.
localGroupSize == 2

\* ------------------------------------------------------------------------
\* Program constants
\* ------------------------------------------------------------------------
min_real == -2
max_real == 1
scaleForce20 == 20
EscapeRadius2 == 4

\* ------------------------------------------------------------------------
\* Single-precision arithmetic on the grid
\* ------------------------------------------------------------------------
One == 2^FracBits
NaN == 0 - 2^30

\* a / b for integers a and b > 0, rounded to nearest, ties to even.
RoundDiv(a, b) ==
    LET q == a \div b
        r == a - q * b
    IN  IF 2 * r < b THEN q
        ELSE IF 2 * r > b THEN q + 1
        ELSE IF q % 2 = 0 THEN q ELSE q + 1

FAdd(a, b) == IF a = NaN \/ b = NaN THEN NaN ELSE a + b
FSub(a, b) == IF a = NaN \/ b = NaN THEN NaN ELSE a - b
FMul(a, b) == IF a = NaN \/ b = NaN THEN NaN ELSE RoundDiv(a * b, One)
\* Float division.  A zero denominator yields NaN: in both kernels the
\* numerator is 0 whenever the denominator is (x < width, depth < maxDepth).
FDiv(a, b) ==
    IF a = NaN \/ b = NaN \/ b = 0 THEN NaN
    ELSE IF b > 0 THEN RoundDiv(a * One, b)
    ELSE 0 - RoundDiv(a * One, 0 - b)
FLt(a, b) == a # NaN /\ b # NaN /\ a < b
FLe(a, b) == a # NaN /\ b # NaN /\ a <= b
\* int -> float
ToFloat(n) == n * One

\* log: the binary logarithm on the grid (integer part by halving, fraction
\* bits by repeated squaring).  The kernels only use a quotient of two logs,
\* which does not depend on the base.
RECURSIVE Log2Floor(_)
Log2Floor(a) == IF a < 2 * One THEN 0 ELSE 1 + Log2Floor(a \div 2)

RECURSIVE Log2Frac(_, _)
Log2Frac(m, bits) ==
    IF bits = 0 THEN 0
    ELSE LET sq == (m * m) \div One
         IN  IF sq >= 2 * One
             THEN 2^(bits - 1) + Log2Frac(sq \div 2, bits - 1)
             ELSE Log2Frac(sq, bits - 1)

FLog(a) ==
    IF a = NaN \/ a < One THEN NaN
    ELSE LET n == Log2Floor(a)
         IN  n * One + Log2Frac(RoundDiv(a, 2^n), FracBits)

\* ------------------------------------------------------------------------
\* Colours
\* ------------------------------------------------------------------------
Black == [kind |-> "black", n |-> 0]                 \* (0, 0, 0, 255)
PaletteColor(j) == [kind |-> "palette", n |-> j]     \* entry j of palette.png
Zero == [kind |-> "zero", n |-> 0]                   \* (0, 0, 0, 0)
Undefined == [kind |-> "undefined", n |-> 0]         \* out-of-bounds global read
Unwritten == [kind |-> "unwritten", n |-> 0]         \* a texel never stored to

\* ------------------------------------------------------------------------
\* The iteration z <- z^2 + c, shared text of both kernels
\* ------------------------------------------------------------------------
\* z * z on a float2 / vec2 is component-wise
Square(z) == [re |-> FMul(z.re, z.re), im |-> FMul(z.im, z.im)]

\* z = (z2.x - z2.y, 2 * z.x * z.y) + c
StepZ(z, z2, c) ==
    [re |-> FAdd(FSub(z2.re, z2.im), c.re),
     im |-> FAdd(FMul(FMul(ToFloat(2), z.re), z.im), c.im)]

\* ------------------------------------------------------------------------
\* OpenCL kernel
\* ------------------------------------------------------------------------
\* c = min + delta * (x / (float)(width - 1), y / (float)(height - 1))
InterpolateCL(x, y, width, height, cmin, cdelta) ==
    [re |-> FAdd(cmin.re, FMul(cdelta.re, FDiv(ToFloat(x), ToFloat(width - 1)))),
     im |-> FAdd(cmin.im, FMul(cdelta.im, FDiv(ToFloat(y), ToFloat(height - 1))))]

LoopCondCL_le(depth, maxDepth, z2) ==
    depth <= maxDepth /\ FLt(FAdd(z2.re, z2.im), ToFloat(EscapeRadius2))

\* depth < maxDepth && z2.x + z2.y < 4.0f
LoopCondCL(depth, maxDepth, z2) ==
    depth < maxDepth /\ FLt(FAdd(z2.re, z2.im), ToFloat(EscapeRadius2))

RECURSIVE IterateCL(_, _, _, _, _)
IterateCL(c, z, z2, depth, maxDepth) ==
    IF LoopCondCL(depth, maxDepth, z2)
    THEN LET zn == StepZ(z, z2, c)
         IN  IterateCL(c, zn, Square(zn), depth + 1, maxDepth)
    ELSE depth

\* i = (float)depth / (float)(maxDepth - 1)
NormalizeCL(depth, maxDepth) == FDiv(ToFloat(depth), ToFloat(maxDepth - 1))

\* ie = fmin(1.0f, log(i * scaleForce + 1.0f) / log(scaleForce));
\* fmin returns the other argument when one is NaN
SmoothCL(i, scaleForce) ==
    LET q == FDiv(FLog(FAdd(FMul(i, scaleForce), One)), FLog(scaleForce))
    IN  IF q = NaN THEN One ELSE IF q < One THEN q ELSE One

PaletteIndexCL_straight(ie, paletteSize) ==
    (ie * (paletteSize - 1)) \div One

PaletteIndexCL_size(ie, paletteSize) ==
    ((One - ie) * paletteSize) \div One

\* index = floor((1.0f - ie) * (float)(paletteSize - 1))
PaletteIndexCL(ie, paletteSize) ==
    ((One - ie) * (paletteSize - 1)) \div One

\* palette[index], the buffer holding `entries` colours
PaletteReadCL(index, entries) ==
    IF 0 <= index /\ index < entries THEN PaletteColor(index) ELSE Undefined

SlotCL_transposed(x, y, width) == x * width + y

\* img[y * width + x]
SlotCL(x, y, width) == y * width + x

KernelCL(x, y, width, height, entries, paletteSize, cmin, cdelta, maxDepth, scaleForce) ==
    LET c == InterpolateCL(x, y, width, height, cmin, cdelta)
        depth == IterateCL(c, c, Square(c), 0, maxDepth)
        i == NormalizeCL(depth, maxDepth)
        ie == SmoothCL(i, scaleForce)
        index == PaletteIndexCL(ie, paletteSize)
    IN  IF depth = maxDepth
        THEN [slot |-> SlotCL(x, y, width), color |-> Black, member |-> TRUE,
              c |-> c, depth |-> depth, i |-> 0, ie |-> 0, index |-> 0,
              denoms |-> {ToFloat(width - 1), ToFloat(height - 1)}]
        ELSE [slot |-> SlotCL(x, y, width), color |-> PaletteReadCL(index, entries),
              member |-> FALSE,
              c |-> c, depth |-> depth, i |-> i, ie |-> ie, index |-> index,
              denoms |-> {ToFloat(width - 1), ToFloat(height - 1),
                          ToFloat(maxDepth - 1), FLog(scaleForce)}]

\* ------------------------------------------------------------------------
\* OpenGL compute shader
\* ------------------------------------------------------------------------
\* c = cdelta * pixel / size + cmin
InterpolateGL(x, y, size, cmin, cdelta) ==
    [re |-> FAdd(FDiv(FMul(cdelta.re, ToFloat(x)), size.w), cmin.re),
     im |-> FAdd(FDiv(FMul(cdelta.im, ToFloat(y)), size.h), cmin.im)]

\* depth <= maxDepth && z2.x + z2.y <= 4.0f   (maxDepth: the uniform)
LoopCondGL(depth, maxDepthU, z2) ==
    depth <= maxDepthU /\ FLe(FAdd(z2.re, z2.im), ToFloat(EscapeRadius2))

RECURSIVE IterateGL(_, _, _, _, _)
IterateGL(c, z, z2, depth, maxDepthU) ==
    IF LoopCondGL(depth, maxDepthU, z2)
    THEN LET zn == StepZ(z, z2, c)
         IN  IterateGL(c, zn, Square(zn), depth + 1, maxDepthU)
    ELSE depth

\* i = float(depth) / maxDepth
NormalizeGL(depth, maxDepthU) == FDiv(ToFloat(depth), ToFloat(maxDepthU))

\* ie = min(1.0f, log(i * scaleForce + 1.0f) / log(scaleForce)).  GLSL
\* leaves the result of an operation on a NaN to the implementation:
\* impl.nanPropagates says whether min(1.0, NaN) is NaN or 1.0.
SmoothGL(i, scaleForce, impl) ==
    LET q == FDiv(FLog(FAdd(FMul(i, scaleForce), One)), FLog(scaleForce))
    IN  IF q = NaN THEN (IF impl.nanPropagates THEN NaN ELSE One)
        ELSE IF q < One THEN q ELSE One

\* color = int(round((1.0f - ie) * paletteSize))   (paletteSize: the uniform).
\* GLSL rounds a fraction of exactly 0.5 in a direction the implementation
\* chooses (impl.halfUp); the conversion of a NaN to int is undefined and is
\* modelled as an index outside every palette.
PaletteIndexGL(ie, paletteSizeU, impl) ==
    IF ie = NaN THEN NaN
    ELSE LET t == (One - ie) * paletteSizeU
             q == t \div One
             r == t - q * One
         IN  IF 2 * r < One THEN q
             ELSE IF 2 * r > One THEN q + 1
             ELSE IF impl.halfUp THEN q + 1 ELSE q

\* imageLoad(palette, color): a load outside the texture returns zero
PaletteLoadGL(index, texels) ==
    IF 0 <= index /\ index < texels THEN PaletteColor(index) ELSE Zero

KernelGL(x, y, size, texels, paletteSizeU, cmin, cdelta, maxDepthU, scaleForce, impl) ==
    LET c == InterpolateGL(x, y, size, cmin, cdelta)
        depth == IterateGL(c, c, Square(c), 0, maxDepthU)
        i == NormalizeGL(depth, maxDepthU)
        ie == SmoothGL(i, scaleForce, impl)
        index == PaletteIndexGL(ie, paletteSizeU, impl)
    IN  IF depth > maxDepthU
        THEN [slot |-> <<x, y>>, color |-> Black, member |-> TRUE,
              c |-> c, depth |-> depth, i |-> 0, ie |-> 0, index |-> 0,
              denoms |-> {size.w, size.h}]
        ELSE [slot |-> <<x, y>>, color |-> PaletteLoadGL(index, texels),
              member |-> FALSE,
              c |-> c, depth |-> depth, i |-> i, ie |-> ie, index |-> index,
              denoms |-> {size.w, size.h, ToFloat(maxDepthU), FLog(scaleForce)}]

\* The uniforms main() sets: size = (width - 1, height - 1),
\* paletteSize = h_palette - 1 (unsigned, passed as a GLint: 0 - 1 is -1),
\* maxDepth = maxDepth - 1.
UniformSize(width, height) == [w |-> ToFloat(width) - One, h |-> ToFloat(height) - One]
UniformPaletteSize(h_palette) == h_palette - 1
UniformMaxDepth(maxDepth) == maxDepth - 1

\* The shader as main() runs it
ShaderGL(x, y, width, height, h_palette, cmin, cdelta, maxDepth, scaleForce, impl) ==
    KernelGL(x, y, UniformSize(width, height), h_palette,
             UniformPaletteSize(h_palette), cmin, cdelta,
             UniformMaxDepth(maxDepth), scaleForce, impl)


\* ------------------------------------------------------------------------
\* State
\* ------------------------------------------------------------------------
VARIABLES
    prog,            \* which program runs: "GL" or "CL"
    width, height,   \* PARAMETERS of main
    maxDepth,        \* PARAMETERS of main
    h_palette,       \* palette entries lodepng::decode produced (0: none)
    cmin, cdelta,    \* complex plane window (min / delta in main)
    impl,            \* what the GLSL implementation chose where GLSL lets it
    pc,              \* position of main
    failed,          \* the host steps that failed so far
    dispatched,      \* coordinates the dispatch created a work item for
    pending,         \* work items that have not run yet
    img,             \* the output image on the device
    writes,          \* number of stores to each coordinate
    hostImg,         \* the vector img of main
    fileWritten,     \* mandelbrot.png was encoded
    pixel,           \* KSpec: the invocation id the kernels are applied to
    kphase,          \* KSpec: "input", "evaluated"
    kGL, kCL,        \* KSpec: what the two kernels computed
    firstMaxDepth,   \* KSpec: maxDepth of the first evaluation
    firstGL, firstCL \* KSpec: what the kernels computed in the first evaluation

configVars == <<prog, width, height, maxDepth, h_palette, cmin, cdelta, impl>>
hostVars == <<pc, failed, dispatched, pending, img, writes,
              hostImg, fileWritten>>
kernelVars == <<pixel, kphase, kGL, kCL, firstMaxDepth, firstGL, firstCL>>
vars == <<configVars, hostVars, kernelVars>>

Coords == (0 .. width - 1) \X (0 .. height - 1)
Impls == [halfUp : BOOLEAN, nanPropagates : BOOLEAN]
NoImpl == [halfUp |-> FALSE, nanPropagates |-> FALSE]
NoResult ==
    [slot |-> 0, color |-> Unwritten, member |-> FALSE, c |-> [re |-> 0, im |-> 0],
     depth |-> 0, i |-> 0, ie |-> 0, index |-> 0, denoms |-> {}]
scaleForce == ToFloat(scaleForce20)

\* ------------------------------------------------------------------------
\* KSpec: the kernels applied to arguments drawn from bounded sets
\* ------------------------------------------------------------------------
KernelSizes == {1, 2}
GridRe == {k * (One \div 2) : k \in -4 .. 6}
GridIm == {k * (One \div 2) : k \in -4 .. 4}

KInit ==
    /\ prog = "kernels"
    /\ width \in KernelSizes
    /\ height \in KernelSizes
    /\ pixel \in Coords
    /\ maxDepth \in 1 .. MaxDepth
    /\ h_palette \in 1 .. MaxPalette
    /\ cmin \in [re : GridRe, im : GridIm]
    /\ cdelta = [re |-> ToFloat(3), im |-> ToFloat(3)]
    /\ impl \in Impls
    /\ kphase = "input"
    /\ kGL = NoResult /\ kCL = NoResult
    /\ firstGL = NoResult /\ firstCL = NoResult
    /\ firstMaxDepth = 0
    /\ pc = "kernels"
    /\ failed = {}
    /\ dispatched = {} /\ pending = {}
    /\ img = [p \in Coords |-> Unwritten]
    /\ writes = [p \in Coords |-> 0]
    /\ hostImg = [p \in Coords |-> Zero]
    /\ fileWritten = FALSE

RunGL(m) == ShaderGL(pixel[1], pixel[2], width, height, h_palette, cmin, cdelta,
                     m, scaleForce, impl)
RunCL(m) == KernelCL(pixel[1], pixel[2], width, height, h_palette, h_palette,
                     cmin, cdelta, m, scaleForce)

\* Both kernels run on the same arguments.
Evaluate ==
    /\ kphase = "input"
    /\ kGL' = RunGL(maxDepth) /\ kCL' = RunCL(maxDepth)
    /\ firstGL' = RunGL(maxDepth) /\ firstCL' = RunCL(maxDepth)
    /\ firstMaxDepth' = maxDepth
    /\ kphase' = "evaluated"
    /\ UNCHANGED <<configVars, hostVars, pixel>>

\* Both kernels run again with a larger maxDepth, everything else fixed.
RaiseMaxDepth ==
    /\ kphase = "evaluated"
    /\ \E m \in maxDepth + 1 .. MaxDepth :
          /\ maxDepth' = m
          /\ kGL' = RunGL(m) /\ kCL' = RunCL(m)
    /\ UNCHANGED <<prog, width, height, h_palette, cmin, cdelta, impl, hostVars,
                   pixel, kphase, firstMaxDepth, firstGL, firstCL>>

KNext == Evaluate \/ RaiseMaxDepth
KSpec == KInit /\ [][KNext]_vars

\* ------------------------------------------------------------------------
\* Spec: the host program main() of either program
\* ------------------------------------------------------------------------
\* min_imag = ((max_real - min_real) * height / width) / -2.0f;
\* max_imag = -1.0f * min_imag;  min = (min_real, min_imag);
\* delta = (max_real - min_real, max_imag - min_imag)
ComplexPlane(w, h) ==
    LET min_imag == FDiv(FDiv(FMul(ToFloat(max_real - min_real), ToFloat(h)),
                              ToFloat(w)),
                         ToFloat(-2))
        max_imag == FMul(ToFloat(-1), min_imag)
    IN  [min |-> [re |-> ToFloat(min_real), im |-> min_imag],
         delta |-> [re |-> ToFloat(max_real - min_real),
                    im |-> FSub(max_imag, min_imag)]]

Init ==
    /\ prog \in {"GL", "CL"}
    /\ width \in 1 .. MaxWidth
    /\ height \in 1 .. MaxHeight
    /\ maxDepth \in 0 .. HostMaxDepth
    /\ h_palette = 0
    /\ cmin = [re |-> 0, im |-> 0]
    /\ cdelta = [re |-> 0, im |-> 0]
    /\ impl \in (IF prog = "GL" THEN Impls ELSE {NoImpl})
    /\ pc = "decode"
    /\ failed = {}
    /\ dispatched = {} /\ pending = {}
    /\ img = [p \in Coords |-> Unwritten]
    /\ writes = [p \in Coords |-> 0]
    /\ hostImg = [p \in Coords |-> Zero]
    /\ fileWritten = FALSE
    /\ pixel = <<0, 0>>
    /\ kphase = "host"
    /\ kGL = NoResult /\ kCL = NoResult
    /\ firstGL = NoResult /\ firstCL = NoResult
    /\ firstMaxDepth = 0

\* A call whose status main() checks: on failure the program exits.
Checked(step, ok, next) ==
    IF ok THEN pc' = next /\ failed' = failed
    ELSE pc' = "aborted" /\ failed' = failed \cup {step}

\* lodepng::decode(palette, w_palette, h_palette, "palette.png"): its return
\* value is dropped.  A failed decode leaves the palette empty and h_palette
\* 0; a decoded palette.png is 1 texel wide and h_palette high.  Then the
\* complex plane window is computed.
DecodePalette ==
    /\ pc = "decode"
    /\ \E n \in 0 .. HostMaxPalette :
          /\ h_palette' = n
          /\ failed' = IF n = 0 THEN failed \cup {"decode"} ELSE failed
    /\ cmin' = ComplexPlane(width, height).min
    /\ cdelta' = ComplexPlane(width, height).delta
    /\ pc' = IF prog = "GL" THEN "glfw" ELSE "platform"
    /\ UNCHANGED <<prog, width, height, maxDepth, impl, dispatched,
                   pending, img, writes, hostImg, fileWritten, kernelVars>>

\* ---- OpenCL host
hostRest == <<configVars, dispatched, pending, img, writes,
              hostImg, fileWritten, kernelVars>>

\* cl::Platform::get; checkCLError
GetPlatform ==
    /\ prog = "CL" /\ pc = "platform"
    /\ \E ok \in BOOLEAN : Checked("platform", ok, "devices")
    /\ UNCHANGED hostRest

\* platforms[0].getDevices; checkCLError
GetDevices ==
    /\ prog = "CL" /\ pc = "devices"
    /\ \E ok \in BOOLEAN : Checked("devices", ok, "upload")
    /\ UNCHANGED hostRest

\* context, queue, buffers (unchecked), then enqueueWriteBuffer of the
\* palette; checkCLError.  A buffer of palette.size() = 0 bytes cannot be
\* created, so the write of an empty palette fails.
WritePalette ==
    /\ prog = "CL" /\ pc = "upload"
    /\ \E ok \in BOOLEAN : Checked("upload", ok /\ h_palette > 0, "build")
    /\ UNCHANGED hostRest

\* program.build; checkCLProgramBuildError
BuildProgram ==
    /\ prog = "CL" /\ pc = "build"
    /\ \E ok \in BOOLEAN : Checked("build", ok, "args")
    /\ UNCHANGED hostRest

\* kernel.setArg(0..6); checkCLError
SetKernelArgs ==
    /\ prog = "CL" /\ pc = "args"
    /\ \E ok \in BOOLEAN : Checked("args", ok, "dispatch")
    /\ UNCHANGED hostRest

\* queue.enqueueNDRangeKernel(kernel, NullRange, global(width, height),
\* local(localGroupSize, localGroupSize)); checkCLError.  The enqueue fails
\* unless the work-group size divides the global size in each dimension.
EnqueueKernel ==
    /\ prog = "CL" /\ pc = "dispatch"
    /\ \E ok \in BOOLEAN :
          LET accepted == /\ ok
                          /\ width % localGroupSize = 0
                          /\ height % localGroupSize = 0
          IN  /\ Checked("dispatch", accepted, "running")
              /\ dispatched' = IF accepted THEN Coords ELSE {}
              /\ pending' = IF accepted THEN Coords ELSE {}
    /\ UNCHANGED <<configVars, img, writes, hostImg, fileWritten, kernelVars>>

\* queue.enqueueReadBuffer(imgBuffer, CL_TRUE, ...): blocks until the
\* kernel has completed; checkCLError
ReadBuffer ==
    /\ prog = "CL" /\ pc = "running" /\ pending = {}
    /\ \E ok \in BOOLEAN :
          /\ Checked("readback", ok, "encode")
          /\ hostImg' = IF ok THEN img ELSE hostImg
    /\ UNCHANGED <<configVars, dispatched, pending, img, writes,
                   fileWritten, kernelVars>>

\* ---- OpenGL host
\* initGLFWOffScreen: exits when glfwInit fails
InitGLFW ==
    /\ prog = "GL" /\ pc = "glfw"
    /\ \E ok \in BOOLEAN : Checked("glfw", ok, "glad")
    /\ UNCHANGED hostRest

\* gladLoadGLLoader: main exits when it fails
LoadGlad ==
    /\ prog = "GL" /\ pc = "glad"
    /\ \E ok \in BOOLEAN : Checked("glad", ok, "build")
    /\ UNCHANGED hostRest

\* glShaderSource, glCompileShader, glAttachShader, glLinkProgram: "no
\* compilation errors are checked"
CompileShader ==
    /\ prog = "GL" /\ pc = "build"
    /\ \E ok \in BOOLEAN :
          failed' = IF ok THEN failed ELSE failed \cup {"build"}
    /\ pc' = "textures"
    /\ UNCHANGED hostRest

\* glGenTextures, glTexStorage2D (image), glTexStorage1D / glTexSubImage1D
\* (palette, h_palette texels), glUseProgram, glBindImageTexture
CreateTextures ==
    /\ prog = "GL" /\ pc = "textures"
    /\ pc' = "uniforms"
    /\ UNCHANGED <<failed, hostRest>>

\* the six uniform / uniformv calls
SetUniforms ==
    /\ prog = "GL" /\ pc = "uniforms"
    /\ pc' = "dispatch"
    /\ UNCHANGED <<failed, hostRest>>

\* Coordinates covered by groups x groups work groups of the shader's local
\* size: glDispatchCompute(width / localGroupSize, height / localGroupSize, 1)
Covered(w, h) ==
    {p \in (0 .. w - 1) \X (0 .. h - 1) :
        /\ p[1] < (w \div localGroupSize) * localGroupSize
        /\ p[2] < (h \div localGroupSize) * localGroupSize}

\* glDispatchCompute: without a linked program nothing is dispatched
DispatchCompute ==
    /\ prog = "GL" /\ pc = "dispatch"
    /\ dispatched' = IF "build" \in failed THEN {} ELSE Covered(width, height)
    /\ pending' = dispatched'
    /\ pc' = "running"
    /\ UNCHANGED <<configVars, failed, img, writes, hostImg, fileWritten, kernelVars>>

\* glMemoryBarrier; glGetTexImage into img.data(); resources freed
GetTexImage ==
    /\ prog = "GL" /\ pc = "running" /\ pending = {}
    /\ hostImg' = img
    /\ pc' = "encode"
    /\ UNCHANGED <<configVars, failed, dispatched, pending, img,
                   writes, fileWritten, kernelVars>>

\* ---- both programs
\* What the work item of coordinate p does: the colour it stores and the
\* coordinate of the image it stores to (the texel imageStore names, or the
\* row-major position of the buffer element img[y * width + x])
WorkItem(p) ==
    IF prog = "GL"
    THEN LET k == ShaderGL(p[1], p[2], width, height, h_palette, cmin, cdelta,
                           maxDepth, scaleForce, impl)
         IN  [target |-> k.slot, color |-> k.color]
    ELSE LET k == KernelCL(p[1], p[2], width, height, h_palette, h_palette, cmin,
                           cdelta, maxDepth, scaleForce)
         IN  [target |-> <<k.slot % width, k.slot \div width>>, color |-> k.color]

Store(image, p) ==
    LET w == WorkItem(p)
    IN  IF w.target \in DOMAIN image
        THEN [image EXCEPT ![w.target] = w.color]
        ELSE image

\* One work item of the dispatch runs: any pending one
RunWorkItem ==
    /\ pc = "running"
    /\ \E p \in pending :
          LET w == WorkItem(p)
          IN  /\ img' = Store(img, p)
              /\ writes' = IF w.target \in DOMAIN writes
                           THEN [writes EXCEPT ![w.target] = @ + 1]
                           ELSE writes
              /\ pending' = pending \ {p}
    /\ UNCHANGED <<configVars, pc, failed, dispatched, hostImg, fileWritten,
                   kernelVars>>

\* lodepng::encode("mandelbrot.png", img.data(), width, height); exit
Encode ==
    /\ pc = "encode"
    /\ fileWritten' = TRUE
    /\ pc' = "done"
    /\ UNCHANGED <<configVars, failed, dispatched, pending, img,
                   writes, hostImg, kernelVars>>

Next ==
    \/ DecodePalette
    \/ GetPlatform \/ GetDevices \/ WritePalette \/ BuildProgram \/ SetKernelArgs
    \/ EnqueueKernel \/ ReadBuffer
    \/ InitGLFW \/ LoadGlad \/ CompileShader \/ CreateTextures \/ SetUniforms
    \/ DispatchCompute \/ GetTexImage
    \/ RunWorkItem \/ Encode

Spec == Init /\ [][Next]_vars

\* ------------------------------------------------------------------------
\* Claims about the host programs (checked under Spec)
\* ------------------------------------------------------------------------
DispatchComplete == pc \in {"running", "encode", "done"} /\ pending = {}

ValidConfig ==
    /\ width >= 1 /\ height >= 1
    /\ maxDepth >= 1
    /\ h_palette >= 1
    /\ scaleForce > One

\* C1: for every width >= 1 and height >= 1, multiples of the work-group
\* size or not, once the dispatch has completed every coordinate of the
\* image has been written exactly once (stated for runs of a valid
\* configuration in which no host step failed).
C1_EveryCoordinateWrittenOnce ==
    (DispatchComplete /\ failed = {} /\ ValidConfig) =>
        \A p \in Coords : writes[p] = 1

\* The image the dispatched work items produce when they run one after the
\* other in row-major order, from element k on.
RECURSIVE SequentialImage(_, _)
SequentialImage(k, image) ==
    IF k >= width * height THEN image
    ELSE LET p == <<k % width, k \div width>>
         IN  SequentialImage(k + 1, IF p \in dispatched THEN Store(image, p) ELSE image)

\* C2: in every interleaving of the work items, the image holds at each
\* coordinate whose work item has run the colour sequential evaluation
\* gives it, and every other coordinate is untouched: a work item writes
\* its own slot only, and the order does not show in the image.
C2_OrderIndependent ==
    pc \in {"running", "encode", "done"} =>
        LET sequential == SequentialImage(0, [q \in Coords |-> Unwritten])
        IN  \A p \in Coords :
                img[p] = IF p \in dispatched \ pending
                         THEN sequential[p]
                         ELSE Unwritten

\* C2 witness: a dispatch of at least four work items has completed and
\* the image holds more than one colour.
C2_Witness ==
    /\ DispatchComplete /\ Cardinality(dispatched) >= 4
    /\ \E p, q \in dispatched : img[p] # img[q]

\* C5: no kernel work is dispatched when the configuration is invalid
\* (maxDepth zero, palette empty, non-positive size, scaleForce <= 1).
C5_InvalidConfigNeverDispatched == dispatched # {} => ValidConfig

\* C6: mandelbrot.png is encoded only when every host step succeeded and
\* every coordinate was given a colour by the kernel (stated for valid
\* configurations whose image is a multiple of the work-group size).
C6_EncodedOnlyOnFullSuccess ==
    (/\ fileWritten /\ ValidConfig
     /\ width % localGroupSize = 0 /\ height % localGroupSize = 0) =>
        (failed = {} /\ \A p \in Coords : writes[p] >= 1)

\* ------------------------------------------------------------------------
\* Claims about the kernels (checked under KSpec)
\* ------------------------------------------------------------------------
Evaluated == kphase = "evaluated"
IsNumber(c) == c.re # NaN /\ c.im # NaN
InUnitInterval(v) == v # NaN /\ 0 <= v /\ v <= One
AtThreeZero(k) == k.c = [re |-> ToFloat(3), im |-> 0]

\* C3: for every valid configuration (width, height, maxDepth, palette size
\* >= 1, scaleForce > 1) and every pixel, neither kernel divides by zero:
\* not by width - 1 or height - 1 in the pixel-to-complex mapping, not by
\* the denominator derived from maxDepth in the normalisation.
C3_NoDivisionByZero ==
    Evaluated => (0 \notin kGL.denoms /\ 0 \notin kCL.denoms)

\* C4: for every escaped pixel whose smoothed value ie lies in [0, 1]
\* (0 and 1 included) and every palette size N >= 1, the index the kernel
\* computes lies in 0 .. N-1 and is the palette entry it reads.
IndexInBounds(k) ==
    (~k.member /\ InUnitInterval(k.ie)) =>
        /\ k.index \in 0 .. h_palette - 1
        /\ k.color = PaletteColor(k.index)

C4_PaletteIndexInBounds ==
    Evaluated => (IndexInBounds(kGL) /\ IndexInBounds(kCL))

\* C4 witness: one kernel escaped with ie exactly 0 and reads the last
\* entry, the other escaped with ie exactly 1 and reads entry 0.
C4_Witness ==
    /\ Evaluated /\ h_palette >= 2
    /\ ~kCL.member /\ kCL.ie = 0 /\ kCL.index = h_palette - 1
    /\ ~kGL.member /\ kGL.ie = One /\ kGL.index = 0

\* C7: for identical host parameters both kernels give every pixel the
\* same classification, the same escape depth and the same palette index
\* (stated for the configurations in which no value is NaN).
C7_KernelsAgree ==
    (Evaluated /\ width >= 2 /\ height >= 2 /\ maxDepth >= 2) =>
        /\ kGL.member = kCL.member
        /\ kGL.depth = kCL.depth
        /\ (~kGL.member => kGL.index = kCL.index)

\* C8 as claimed: for c = (3, 0) the depth is 0, the pixel is escaped, and
\* its palette index is the low end of the range, 0 (stated for
\* maxDepth >= 2, where the normalisation does not divide by zero).
EscapesAtOnceLow(k) ==
    (AtThreeZero(k) /\ maxDepth >= 2) =>
        (k.depth = 0 /\ ~k.member /\ k.index = 0)

C8_ImmediateEscapeLowEnd ==
    Evaluated => (EscapesAtOnceLow(kGL) /\ EscapesAtOnceLow(kCL))

\* C8 as amended: for c = (3, 0) and maxDepth >= 1 the depth is 0 and the
\* pixel is escaped; for maxDepth >= 2 its palette index is the high end of
\* the range, paletteSize - 1.
EscapesAtOnceHigh(k) ==
    AtThreeZero(k) =>
        /\ k.depth = 0 /\ ~k.member
        /\ (maxDepth >= 2 => k.index = h_palette - 1)

C8_ImmediateEscapeHighEnd ==
    Evaluated => (EscapesAtOnceHigh(kGL) /\ EscapesAtOnceHigh(kCL))

\* C8 witness: both kernels evaluated c = (3, 0) with maxDepth >= 2 and a
\* palette of at least two entries.
C8_Witness ==
    /\ Evaluated /\ AtThreeZero(kGL) /\ AtThreeZero(kCL)
    /\ maxDepth >= 2 /\ h_palette >= 2
    /\ kGL.index = h_palette - 1 /\ kCL.index = h_palette - 1

\* C9: if a kernel classifies a point as escaped with depth d under the
\* iteration limit m1, then under every m2 > m1 (all else fixed) it
\* classifies it as escaped with the same depth d.
C9_EscapeMonotone ==
    Evaluated =>
        /\ (~firstGL.member => (~kGL.member /\ kGL.depth = firstGL.depth))
        /\ (~firstCL.member => (~kCL.member /\ kCL.depth = firstCL.depth))

\* C9 witness: maxDepth was raised for a point that both kernels had
\* classified as escaped after at least one iteration.
C9_Witness ==
    /\ Evaluated /\ maxDepth > firstMaxDepth
    /\ ~firstGL.member /\ firstGL.depth >= 1
    /\ ~firstCL.member /\ firstCL.depth >= 1

\* None of the iterates z_k .. z_(m-1) has |z|^2 > 4.0 (z is z_k).
RECURSIVE NoIterateExceeds4(_, _, _, _)
NoIterateExceeds4(c, z, k, m) ==
    LET z2 == Square(z)
    IN  IF k >= m THEN TRUE
        ELSE IF FLt(ToFloat(4), FAdd(z2.re, z2.im)) THEN FALSE
        ELSE NoIterateExceeds4(c, StepZ(z, z2, c), k + 1, m)

\* C10: a kernel writes opaque black for a pixel exactly when none of the
\* iterates z_0 = c, ..., z_(maxDepth-1) has |z|^2 > 4.0; an iterate with
\* |z|^2 exactly 4.0 is not an escape.
BlackIffNoEscape(k) ==
    IsNumber(k.c) =>
        ((k.color = Black) <=> NoIterateExceeds4(k.c, k.c, 0, maxDepth))

C10_BlackIffNoIterateExceeds4 ==
    Evaluated => (BlackIffNoEscape(kGL) /\ BlackIffNoEscape(kCL))

=============================================================================
